---- MODULE Spec2Model ----
(***************************************************************************)
(* az_table_catalog: a secondary-index catalog over a partitioned          *)
(* key-value store (Azure Table Storage), with a write-ahead log table and *)
(* a replay/checkpoint procedure.                                          *)
(*                                                                         *)
(* Strings are sequences of one-character strings, so that len(), lower(), *)
(* concatenation and the store's lexicographic comparison are computed as  *)
(* the code computes them.  A WAL row key "<timestamp>_<uuid>" is the pair *)
(* <<ts, uuid>>: the timestamp has a fixed width, so the string order of   *)
(* two row keys is the lexicographic order of the pairs.                   *)
(***************************************************************************)
EXTENDS Integers, Sequences, FiniteSets, TLC

\* --------------------------------------------------------------------------
\* Bounds of the model
\* --------------------------------------------------------------------------

\* Number of WAL row keys that can be generated (caps the clock).
MaxClock == 2

\* Longest filter a caller passes to query/delete.
MaxFilterLen == 2

\* --------------------------------------------------------------------------
\* Strings
\* --------------------------------------------------------------------------

\* The characters used, in ASCII order.
Alphabet ==
    <<" ", ",", ".", "0", "1", "2", "3", "4", "5", "6", "7", "8", "9", ":", "@",
      "A", "B", "C", "D", "E", "F", "G", "H", "I", "J", "K", "L", "M",
      "N", "O", "P", "Q", "R", "S", "T", "U", "V", "W", "X", "Y", "Z",
      "_",
      "a", "b", "c", "d", "e", "f", "g", "h", "i", "j", "k", "l", "m",
      "n", "o", "p", "q", "r", "s", "t", "u", "v", "w", "x", "y", "z",
      "|">>

Chars == {Alphabet[i] : i \in 1..Len(Alphabet)}

\* Position of a character in the ASCII order.
Ord == [c \in Chars |-> CHOOSE i \in 1..Len(Alphabet) : Alphabet[i] = c]

\* str.lower() on one character.
LowerChar(c) ==
    IF Ord[c] >= Ord["A"] /\ Ord[c] <= Ord["Z"]
    THEN Alphabet[Ord[c] + (Ord["a"] - Ord["A"])]
    ELSE c

\* Op(x), with the argument x evaluated once and bound as a value.
With(x, Op(_)) == CHOOSE r \in {Op(v) : v \in {x}} : TRUE

\* str.lower()
Lower(s) == With(s, LAMBDA v : [i \in 1..Len(v) |-> LowerChar(v[i])])

\* a < b in the lexicographic (ordinal) order of strings.
RECURSIVE StrLess(_, _)
StrLess(a, b) ==
    IF b = <<>> THEN FALSE
    ELSE IF a = <<>> THEN TRUE
    ELSE IF a[1] # b[1] THEN Ord[a[1]] < Ord[b[1]]
    ELSE StrLess(Tail(a), Tail(b))

StrLeq(a, b) == a = b \/ StrLess(a, b)

\* str(n) for the lengths that occur.
Digits == <<"0", "1", "2", "3", "4", "5", "6", "7", "8", "9">>

RECURSIVE IntToStr(_)
IntToStr(n) ==
    IF n < 10 THEN <<Digits[n + 1]>>
    ELSE IntToStr(n \div 10) \o <<Digits[(n % 10) + 1]>>

\* sep.join(parts)
RECURSIVE Join(_, _)
Join(sep, parts) ==
    IF parts = <<>> THEN <<>>
    ELSE IF Len(parts) = 1 THEN parts[1]
    ELSE parts[1] \o sep \o Join(sep, Tail(parts))

\* sorted(xs) for a list of distinct strings.
RECURSIVE SortedStrs(_)
SortedStrs(S) ==
    IF S = {} THEN <<>>
    ELSE LET m == CHOOSE x \in S : \A y \in S : StrLeq(x, y)
         IN  <<m>> \o SortedStrs(S \ {m})

Range(f) == {f[i] : i \in DOMAIN f}

\* --------------------------------------------------------------------------
\* Field names and values
\* --------------------------------------------------------------------------

F_PartitionKey == <<"P", "a", "r", "t", "i", "t", "i", "o", "n", "K", "e", "y">>
F_RowKey       == <<"R", "o", "w", "K", "e", "y">>
F_Timestamp    == <<"T", "i", "m", "e", "s", "t", "a", "m", "p">>
F_etag         == <<"e", "t", "a", "g">>
F_operation    == <<"o", "p", "e", "r", "a", "t", "i", "o", "n">>
F_email        == <<"e", "m", "a", "i", "l">>
F_team         == <<"t", "e", "a", "m">>
F_userId       == <<"u", "s", "e", "r", "I", "d">>
F_nick         == <<"n", "i", "c", "k">>

S_insert == <<"i", "n", "s", "e", "r", "t">>
S_delete == <<"d", "e", "l", "e", "t", "e">>
S_u1     == <<"u", "1">>
S_u2     == <<"u", "2">>
S_U1     == <<"U", "1">>
S_u10    == <<"u", "1", "0">>
S_a      == <<"a", "@", "x", ".", "c", "o", "m">>
S_b      == <<"b", "@", "x", ".", "c", "o", "m">>
S_eng    == <<"e", "n", "g">>
S_ops    == <<"o", "p", "s">>

\* --------------------------------------------------------------------------
\* Internal helpers (key codec)
\* --------------------------------------------------------------------------

\* hashlib.md5(s.encode()).hexdigest()[:8], tabulated for the strings the
\* model's records produce.
md5_hex8(digest_input) == With(digest_input, LAMBDA s :
    CASE s = S_a \o <<"|">> \o S_eng -> <<"9", "e", "4", "a", "4", "b", "d", "7">>
      [] s = S_a \o <<"|">> \o S_ops -> <<"5", "a", "d", "a", "6", "3", "5", "a">>
      [] s = S_b \o <<"|">> \o S_eng -> <<"9", "7", "4", "4", "7", "1", "8", "8">>
      [] s = S_b \o <<"|">> \o S_ops -> <<"4", "c", "f", "6", "a", "c", "a", "9">>)

\* {k: v for k, v in entity.items() if k not in [PartitionKey, RowKey, Timestamp, etag]}
entity_to_payload(entity) ==
    [k \in DOMAIN entity \ {F_PartitionKey, F_RowKey, F_Timestamp, F_etag}
        |-> entity[k]]

\* f"{len(field)}_{field}{value}".lower()
partition_key(field, value) ==
    Lower(IntToStr(Len(field)) \o <<"_">> \o field \o value)

\* f"{row_key_value}:{md5('|'.join(lower(record[k]) for k in sorted(index_keys)))[:8]}"
row_key(record, row_key_value, index_keys) ==
    With(SortedStrs(Range(index_keys)), LAMBDA ks :
        With(Join(<<"|">>, [i \in 1..Len(ks) |-> Lower(record[ks[i]])]), LAMBDA index_values :
            row_key_value \o <<":">> \o md5_hex8(index_values)))

\* --------------------------------------------------------------------------
\* State
\* --------------------------------------------------------------------------

\* Independent client processes sharing the two tables.
Clients == {1, 2}

\* The schema every client is constructed with.
INDEX_KEYS == <<F_email, F_team>>
ROW_KEY    == F_userId

S_wal == <<"w", "a", "l">>

\* start_time "1900-01-01": sorts before every generated WAL row key.
Epoch == <<0, 0>>

\* The uuids uuid4() draws, in their string order.
UUIDs == {1, 2}

VARIABLES
    schema,      \* per client: _index_keys, _row_key, _schema_locked
    module_client, \* the module's _client: 0 for None, else the client it refers to
    table,       \* the index table: a set of entities, unique by (PartitionKey, RowKey)
    wal,         \* the "wal" partition of the WAL table: a set of entities
    checkpoint,  \* the (metadata, checkpoint) entity: <<>> if absent, else <<datetime>>
    clock,       \* the wall clock: the latest timestamp _make_tx_row_key has read
    made,        \* the row keys _make_tx_row_key has made, each with its caller
    frame,       \* per caller: the call in progress and its local variables;
                 \* self is the client the method runs on (the caller's own,
                 \* or the one the module-level function got from _client)
    last,        \* observation: the call that returned (or died) most recently, with
                 \* its return value and the payloads it had for the WAL (records)
    alone,       \* observation: the most recently started call found every other client idle
    applied,     \* observation: row keys of the WAL entries some recover has fully applied
    resume       \* observation: <<index a crashed recover would have produced>>, see crash

vars == <<schema, module_client, table, wal, checkpoint, clock, made, frame, last, alone, applied,
         resume>>

store == <<table, wal, checkpoint, clock, made>>

IdleFrame ==
    [pc |-> "idle", op |-> "none", arg |-> <<>>, row_from |-> <<>>, row_to |-> <<>>,
     results |-> <<>>, qi |-> 0, operation |-> <<>>, records |-> <<>>, ri |-> 0,
     wkey |-> <<>>, explicit |-> FALSE, start_time |-> <<>>, orphans |-> <<>>,
     oi |-> 0, ki |-> 0, self |-> 0]

NoCall ==
    [client |-> 0, op |-> "none", arg |-> <<>>, row_from |-> <<>>, row_to |-> <<>>,
     explicit |-> FALSE, status |-> "none", value |-> <<>>, records |-> <<>>,
     failed |-> <<>>]

Init ==
    /\ schema = [c \in Clients |->
                    [index_keys |-> INDEX_KEYS, row_key |-> ROW_KEY, schema_locked |-> TRUE]]
    /\ module_client = 0
    /\ table = {}
    /\ wal = {}
    /\ checkpoint = <<>>
    /\ clock = 0
    /\ made = {}
    /\ frame = [c \in Clients |-> IdleFrame]
    /\ last = NoCall
    /\ alone = TRUE
    /\ applied = {}
    /\ resume = <<>>

\* --------------------------------------------------------------------------
\* The backing store
\* --------------------------------------------------------------------------

\* a < b for WAL row keys "<timestamp>_<uuid>" (and start_time strings).
KeyLess(a, b) == a[1] < b[1] \/ (a[1] = b[1] /\ a[2] < b[2])

Occupied(tbl, pk, rk) ==
    <<pk, rk>> \in {<<e[F_PartitionKey], e[F_RowKey]>> : e \in tbl}

\* The entities of a set in ascending RowKey order (the store's native order).
RECURSIVE ByRowKey(_)
ByRowKey(S) ==
    IF S = {} THEN <<>>
    ELSE LET m == CHOOSE x \in S : \A y \in S : StrLeq(x[F_RowKey], y[F_RowKey])
         IN  <<m>> \o ByRowKey(S \ {m})

\* table.query_entities("PartitionKey eq pk [and RowKey ge lo] [and RowKey le hi]")
query_entities(tbl, pk, lo, hi) ==
    ByRowKey({e \in tbl : /\ e[F_PartitionKey] = pk
                          /\ lo = <<>> \/ StrLeq(lo, e[F_RowKey])
                          /\ hi = <<>> \/ StrLeq(e[F_RowKey], hi)})

RECURSIVE ByWalKey(_)
ByWalKey(S) ==
    IF S = {} THEN <<>>
    ELSE LET m == CHOOSE x \in S : \A y \in S \ {x} : KeyLess(x[F_RowKey], y[F_RowKey])
         IN  <<m>> \o ByWalKey(S \ {m})

\* wal_entries_after with "RowKey ge" in place of "RowKey gt".
wal_entries_from(w, start_time) ==
    ByWalKey({e \in w : ~KeyLess(e[F_RowKey], start_time)})

\* wal.query_entities("PartitionKey eq 'wal' and RowKey gt start_time")
wal_entries_after(w, start_time) ==
    ByWalKey({e \in w : KeyLess(start_time, e[F_RowKey])})

\* table.create_entity(entity): fails if (PartitionKey, RowKey) is occupied.
create_entity(tbl, entity) ==
    IF Occupied(tbl, entity[F_PartitionKey], entity[F_RowKey])
    THEN [error |-> "ResourceExistsError", table |-> tbl]
    ELSE [error |-> "none", table |-> tbl \cup {entity}]

\* table.delete_entity(partition_key, row_key): the outcomes the store can
\* give.  An entity that is there is removed.  When there is none to remove,
\* one store reports nothing and another raises ResourceNotFoundError (the
\* error _apply_delete is written to catch); the code runs against either.
delete_entity(tbl, pk, rk) ==
    IF Occupied(tbl, pk, rk)
    THEN {[error |-> "none",
           table |-> {e \in tbl : ~(e[F_PartitionKey] = pk /\ e[F_RowKey] = rk)}]}
    ELSE {[error |-> "none", table |-> tbl],
          [error |-> "ResourceNotFoundError", table |-> tbl]}

\* --------------------------------------------------------------------------
\* Replay of one WAL entry
\* --------------------------------------------------------------------------

\* One iteration of _apply_insert's loop: create the copy under index key `key`;
\* ResourceExistsError is swallowed.
apply_insert_key(tbl, sch, payload, key) ==
    LET rk == row_key(payload, payload[sch.row_key], sch.index_keys)
        pk == partition_key(key, payload[key])
        r  == create_entity(tbl, payload @@ (F_PartitionKey :> pk @@ F_RowKey :> rk))
    IN  IF r.error = "ResourceExistsError" THEN [error |-> "none", table |-> tbl] ELSE r

\* One iteration of _apply_delete's loop: remove the copy under index key `key`;
\* ResourceNotFoundError, when the store raises it, is swallowed, so that
\* whichever outcome the store gives the iteration ends the same way.
apply_delete_key(tbl, sch, payload, key) ==
    LET rk == row_key(payload, payload[sch.row_key], sch.index_keys)
        pk == partition_key(key, payload[key])
        rs == {IF r.error = "ResourceNotFoundError"
               THEN [error |-> "none", table |-> tbl] ELSE r :
               r \in delete_entity(tbl, pk, rk)}
    IN  CHOOSE r \in rs : TRUE

\* The store call recover makes for index key number ki of a WAL entity.
apply_key_of(tbl, sch, orphan, ki) ==
    LET op      == orphan[F_operation]
        payload == entity_to_payload(orphan)
    IN  IF op = S_insert THEN apply_insert_key(tbl, sch, payload, sch.index_keys[ki])
        ELSE IF op = S_delete THEN apply_delete_key(tbl, sch, payload, sch.index_keys[ki])
        ELSE [error |-> "none", table |-> tbl]

\* _apply_insert / _apply_delete on one WAL entity, from index key number ki on,
\* up to the first error that is not swallowed.
RECURSIVE apply_keys_from(_, _, _, _)
apply_keys_from(tbl, sch, orphan, ki) ==
    IF ki > Len(sch.index_keys) THEN [error |-> "none", table |-> tbl]
    ELSE LET r == apply_key_of(tbl, sch, orphan, ki)
         IN  IF r.error # "none" THEN r
             ELSE apply_keys_from(r.table, sch, orphan, ki + 1)

apply_entry(tbl, sch, orphan) == apply_keys_from(tbl, sch, orphan, 1)

\* The loop of recover over orphans[oi..], up to the first error.
RECURSIVE replay_from(_, _, _, _)
replay_from(tbl, sch, orphans, oi) ==
    IF oi > Len(orphans) THEN [error |-> "none", table |-> tbl]
    ELSE LET r == apply_entry(tbl, sch, orphans[oi])
         IN  IF r.error # "none" THEN r
             ELSE replay_from(r.table, sch, orphans, oi + 1)

\* Does recover make store calls for this entity (op is insert or delete)?
HasIndexWrites(orphan) == orphan[F_operation] \in {S_insert, S_delete}

\* --------------------------------------------------------------------------
\* Calls and returns
\* --------------------------------------------------------------------------

\* What the call, when it returns normally, returns to its caller: query its
\* results, insert the record it was given; the others return None.
ReturnValue(f) ==
    CASE f.op = "query"  -> f.results
      [] f.op = "insert" -> f.arg
      [] OTHER           -> <<>>

\* The call of client c, whose frame is f, ends with `status`.
Return(c, f, status, failed) ==
    /\ frame' = [frame EXCEPT ![c] = IdleFrame]
    /\ last' = [client |-> c, op |-> f.op, arg |-> f.arg, row_from |-> f.row_from,
                row_to |-> f.row_to, explicit |-> f.explicit,
                status |-> status,
                value |-> IF status = "ok" THEN ReturnValue(f) ELSE <<>>,
                records |-> f.records,
                failed |-> failed]

\* Client c starts a call.
Called(c, isRecover) ==
    /\ frame[c].pc = "idle"
    /\ alone' = \A d \in Clients \ {c} : frame[d].pc = "idle"
    /\ resume' = IF /\ isRecover
                    /\ resume # <<>>
                    /\ resume[1].client = c
                    /\ resume[1].stage = "crashed"
                 THEN <<[resume[1] EXCEPT !.stage = "resuming"]>>
                 ELSE <<>>

\* _require_schema
require_schema(sch) == IF sch.schema_locked THEN "ok" ELSE "RuntimeError"

\* _validate_filter(filter)
validate_filter(sch, filter) ==
    IF Len(filter) # 1 THEN "ValueError"
    ELSE IF filter[1][1] \notin Range(sch.index_keys) THEN "ValueError"
    ELSE "ok"

\* --------------------------------------------------------------------------
\* __init__, configure
\* --------------------------------------------------------------------------

\* The schema fields as __init__ sets them before it calls configure (None,
\* None, False); also the state of a client that does not exist.
NoSchema == [index_keys |-> <<>>, row_key |-> <<>>, schema_locked |-> FALSE]

\* s.split(",")
RECURSIVE SplitComma(_)
SplitComma(s) ==
    IF "," \notin Range(s) THEN <<s>>
    ELSE LET i == CHOOSE j \in 1..Len(s) : s[j] = "," /\ \A k \in 1..(j - 1) : s[k] # ","
         IN  <<SubSeq(s, 1, i - 1)>> \o SplitComma(SubSeq(s, i + 1, Len(s)))

\* s.strip(), for the blanks that occur.
RECURSIVE Strip(_)
Strip(s) ==
    IF s = <<>> THEN s
    ELSE IF s[1] = " " THEN Strip(Tail(s))
    ELSE IF s[Len(s)] = " " THEN Strip(SubSeq(s, 1, Len(s) - 1))
    ELSE s

\* An index_keys argument is a list, a string or None:
\* [kind |-> "list" | "str" | "none", val |-> the list or the string].
\* Lines 89-90: [k.strip() for k in index_keys.split(",") if k.strip()]
parse_index_keys(index_keys) ==
    IF index_keys.kind = "str"
    THEN LET parts == SplitComma(index_keys.val)
         IN  SelectSeq([i \in 1..Len(parts) |-> Strip(parts[i])], LAMBDA k : k # <<>>)
    ELSE index_keys.val

\* configure without the check of _schema_locked.
configure_schema_unlocked(sch, index_keys, rkey) ==
    LET keys == parse_index_keys(index_keys)
    IN  IF keys = <<>> \/ rkey = <<>> THEN [status |-> "ValueError", schema |-> sch]
        ELSE [status |-> "ok",
              schema |-> [index_keys |-> keys, row_key |-> rkey, schema_locked |-> TRUE]]

\* TableCatalogClient.configure(index_keys, row_key) on the schema fields sch:
\* how it ends, and the schema fields after it.
configure_schema(sch, index_keys, rkey) ==
    LET keys == parse_index_keys(index_keys)
    IN  IF sch.schema_locked THEN [status |-> "RuntimeError", schema |-> sch]
        ELSE IF keys = <<>> \/ rkey = <<>> THEN [status |-> "ValueError", schema |-> sch]
        ELSE [status |-> "ok",
              schema |-> [index_keys |-> keys, row_key |-> rkey, schema_locked |-> TRUE]]

\* The frame of a configure call, as the call that returns is recorded.
ConfigureFrame(op, index_keys, rkey) ==
    [IdleFrame EXCEPT !.op = op, !.arg = <<index_keys, rkey>>]

\* client.configure(index_keys, row_key) on a client that exists.
configure(c, index_keys, rkey) ==
    LET r == configure_schema(schema[c], index_keys, rkey)
    IN  /\ schema[c].schema_locked
        /\ Called(c, FALSE)
        /\ schema' = [schema EXCEPT ![c] = r.schema]
        /\ Return(c, ConfigureFrame("configure", index_keys, rkey), r.status, <<>>)
        /\ UNCHANGED <<module_client, store, applied>>

\* TableCatalogClient(index_keys=, row_key=), lines 70-79, in an environment env
\* = [index_keys, row_key] (<<>>: the variable is not set): an argument that is
\* None or empty is replaced by the environment's value, and configure is
\* called on the new object.  The result: how the constructor ends, the call
\* that ended so, and the schema fields of the object (there is no object
\* when __init__ raises).
init_result(index_keys, rkey, env) ==
    LET keys == IF index_keys.val = <<>> THEN [kind |-> "str", val |-> env.index_keys]
                ELSE index_keys
        rk   == IF rkey = <<>> THEN env.row_key ELSE rkey
        r    == configure_schema(NoSchema, keys, rk)
    IN  IF keys.val = <<>> \/ rk = <<>>
        THEN [status |-> "EnvironmentError", schema |-> NoSchema,
              frame |-> ConfigureFrame("init", index_keys, rkey)]
        ELSE [status |-> r.status, schema |-> r.schema,
              frame |-> ConfigureFrame("configure", keys, rk)]

\* client = TableCatalogClient(index_keys=, row_key=): a caller constructs
\* client c.
init(c, index_keys, rkey, env) ==
    LET r == init_result(index_keys, rkey, env)
    IN  /\ ~schema[c].schema_locked
        /\ Called(c, FALSE)
        /\ UNCHANGED <<module_client, store, applied>>
        /\ schema' = [schema EXCEPT ![c] = r.schema]
        /\ Return(c, r.frame, r.status, <<>>)

\* A module-level function constructs a client, lines 208 and 215 up to the
\* store calls of __init__ (lines 81-83): when the constructor raises, so does
\* the call; else the new object is client c, and the call, whose frame is f0,
\* goes on to set _client.
construct(c, index_keys, rkey, env, f0) ==
    LET r == init_result(index_keys, rkey, env)
    IN  /\ ~schema[c].schema_locked
        /\ Called(c, FALSE)
        /\ UNCHANGED <<module_client, store, applied>>
        /\ schema' = [schema EXCEPT ![c] = r.schema]
        /\ IF r.status # "ok"
           THEN Return(c, r.frame, r.status, <<>>)
           ELSE /\ frame' = [frame EXCEPT ![c] = [f0 EXCEPT !.pc = "set_client", !.self = c]]
                /\ UNCHANGED last

\* The module-level configure(index_keys, row_key), lines 211-215, called by
\* the thread that would construct client c: the test of _client, then the
\* constructor; the assignment to _client is a later step (set_client).
module_configure(c, index_keys, rkey, env) ==
    IF module_client # 0
    THEN /\ Called(c, FALSE)
         /\ Return(c, ConfigureFrame("module_configure", index_keys, rkey),
                   "RuntimeError", <<>>)
         /\ UNCHANGED <<schema, module_client, store, applied>>
    ELSE construct(c, index_keys, rkey, env,
                   ConfigureFrame("module_configure", index_keys, rkey))

\* --------------------------------------------------------------------------
\* query
\* --------------------------------------------------------------------------

\* The body of query for a one-predicate filter (lines 109-117): validation, the
\* OData range on RowKey, the scan, and the metadata strip.
query_one(tbl, sch, pred, row_from, row_to) ==
    LET field == pred[1]
        value == pred[2]
        lo    == IF row_from # <<>> THEN Lower(row_from) \o <<":">> ELSE <<>>
        hi    == IF row_to # <<>> THEN Lower(row_to) \o <<":", "z">> ELSE <<>>
        found == query_entities(tbl, partition_key(field, value), lo, hi)
    IN  IF validate_filter(sch, <<pred>>) # "ok"
        THEN [error |-> validate_filter(sch, <<pred>>), results |-> <<>>]
        ELSE [error |-> "none",
              results |-> [i \in 1..Len(found) |-> entity_to_payload(found[i])]]

\* Intersect that keeps every result as soon as anything matches.
Intersect_any(results, matches) == IF matches = <<>> THEN <<>> ELSE results

\* results = [r for r in results if r in matches]
Intersect(results, matches) == SelectSeq(results, LAMBDA r : r \in Range(matches))

\* The loop of query over filter[qi..] (lines 120-123), against one table state.
RECURSIVE query_rest(_, _, _, _, _, _, _)
query_rest(tbl, sch, filter, qi, row_from, row_to, results) ==
    IF qi > Len(filter) \/ results = <<>>
    THEN [error |-> "none", results |-> results]
    ELSE LET m == query_one(tbl, sch, filter[qi], row_from, row_to)
         IN  IF m.error # "none" THEN m
             ELSE query_rest(tbl, sch, filter, qi + 1, row_from, row_to,
                             Intersect(results, m.results))

\* query(filter, row_from, row_to) evaluated against one table state.
query_result(tbl, sch, filter, row_from, row_to) ==
    IF require_schema(sch) # "ok" THEN [error |-> "RuntimeError", results |-> <<>>]
    ELSE IF filter = <<>> THEN [error |-> "StopIteration", results |-> <<>>]
    ELSE LET first == query_one(tbl, sch, filter[1], row_from, row_to)
         IN  IF first.error # "none" THEN first
             ELSE query_rest(tbl, sch, filter, 2, row_from, row_to, first.results)

\* The loop of query has nothing left to do.
QueryDone(f) == f.qi > Len(f.arg) \/ f.results = <<>>

\* AfterScan where delete raises when its query returned nothing.
AfterScan_raising(c, f) ==
    IF ~QueryDone(f)
    THEN /\ frame' = [frame EXCEPT ![c] = [f EXCEPT !.pc = "query_next"]]
         /\ UNCHANGED last
    ELSE IF f.op = "query"
    THEN Return(c, f, "ok", <<>>)
    ELSE IF f.results = <<>>
    THEN Return(c, f, "ValueError", <<>>)
    ELSE /\ frame' = [frame EXCEPT ![c] =
                        [f EXCEPT !.records = f.results, !.ri = 1, !.pc = "wal_key"]]
         /\ UNCHANGED last

\* After a scan of query: loop on, return the results (query), or go on to
\* write the WAL entries (delete).
AfterScan(c, f) ==
    IF ~QueryDone(f)
    THEN /\ frame' = [frame EXCEPT ![c] = [f EXCEPT !.pc = "query_next"]]
         /\ UNCHANGED last
    ELSE IF f.op = "query"
    THEN Return(c, f, "ok", <<>>)
    ELSE /\ frame' = [frame EXCEPT ![c] =
                        [f EXCEPT !.records = f.results, !.ri = 1,
                                  !.pc = IF f.results = <<>> THEN "ckpt" ELSE "wal_key"]]
         /\ UNCHANGED last

\* Lines 104-117: the call of query on client o by caller c (as such, or as the
\* first statement of delete when op = "delete") up to and including its first
\* scan.
query_body(c, o, op, filter, row_from, row_to) ==
    LET f0    == [IdleFrame EXCEPT !.op = op, !.arg = filter, !.row_from = row_from,
                                   !.row_to = row_to, !.operation = S_delete,
                                   !.self = o]
        first == query_one(table, schema[o], filter[1], row_from, row_to)
    IN  /\ UNCHANGED <<schema, store, applied>>
        /\ IF require_schema(schema[o]) # "ok" THEN Return(c, f0, "RuntimeError", <<>>)
           ELSE IF filter = <<>> THEN Return(c, f0, "StopIteration", <<>>)
           ELSE IF first.error # "none" THEN Return(c, f0, first.error, <<>>)
           ELSE AfterScan(c, [f0 EXCEPT !.results = first.results, !.qi = 2])

\* A caller of client c calls query, or delete (op), which begins with query.
query_first(c, op, filter, row_from, row_to) ==
    /\ Called(c, FALSE)
    /\ UNCHANGED module_client
    /\ query_body(c, c, op, filter, row_from, row_to)

\* query(filter, row_from=, row_to=)
query(c, filter, row_from, row_to) == query_first(c, "query", filter, row_from, row_to)

\* Lines 120-123: one turn of the loop: the recursive query on one predicate and
\* the intersection.
query_next(c) ==
    LET f == frame[c]
        m == query_one(table, schema[f.self], f.arg[f.qi], f.row_from, f.row_to)
    IN  /\ f.pc = "query_next"
        /\ UNCHANGED <<schema, module_client, store, applied, alone, resume>>
        /\ IF m.error # "none" THEN Return(c, f, m.error, <<>>)
           ELSE AfterScan(c, [f EXCEPT !.results = Intersect(f.results, m.results),
                                       !.qi = f.qi + 1])

\* --------------------------------------------------------------------------
\* insert, delete, _write_wal
\* --------------------------------------------------------------------------

\* The clock readings still available to new calls: MaxClock less the readings
\* taken and those that calls already under way are about to take.
ClockLeft ==
    MaxClock - Cardinality(made)
             - Cardinality({d \in Clients :
                               \/ frame[d].pc = "wal_key"
                               \/ /\ frame[d].pc \in {"set_client", "return_client"}
                                  /\ frame[d].op = "insert"})

\* missing = [k for k in self._index_keys + [self._row_key] if k not in record]
missing_fields(sch, record) ==
    SelectSeq(sch.index_keys \o <<sch.row_key>>, LAMBDA k : k \notin DOMAIN record)

\* insert whose error message names only the first missing field.
insert_first_missing(c, record) ==
    LET sch     == schema[c]
        f0      == [IdleFrame EXCEPT !.op = "insert", !.arg = record,
                                     !.operation = S_insert, !.self = c]
        missing == missing_fields(sch, record)
    IN  /\ ClockLeft > 0 \/ missing # <<>>
        /\ Called(c, FALSE)
        /\ UNCHANGED <<schema, module_client, store, applied>>
        /\ IF require_schema(sch) # "ok" THEN Return(c, f0, "RuntimeError", <<>>)
           ELSE IF missing # <<>> THEN Return(c, f0, "ValueError", <<missing[1]>>)
           ELSE /\ frame' = [frame EXCEPT ![c] =
                               [f0 EXCEPT !.records = <<record>>, !.ri = 1, !.pc = "wal_key"]]
                /\ UNCHANGED last

\* insert(record) on client o by caller c, lines 128-131: the validation, whose
\* error names the missing fields; then _write_wal("insert", record).
insert_body(c, o, record) ==
    LET sch     == schema[o]
        f0      == [IdleFrame EXCEPT !.op = "insert", !.arg = record,
                                     !.operation = S_insert, !.self = o]
        missing == missing_fields(sch, record)
    IN  /\ UNCHANGED <<schema, store, applied>>
        /\ IF require_schema(sch) # "ok" THEN Return(c, f0, "RuntimeError", <<>>)
           ELSE IF missing # <<>> THEN Return(c, f0, "ValueError", missing)
           ELSE /\ frame' = [frame EXCEPT ![c] =
                               [f0 EXCEPT !.records = <<record>>, !.ri = 1, !.pc = "wal_key"]]
                /\ UNCHANGED last

\* A caller of client c calls insert(record).
\* A valid call starts only while a clock reading is left for it, so that it
\* completes.
insert(c, record) ==
    /\ ClockLeft > 0 \/ missing_fields(schema[c], record) # <<>>
    /\ Called(c, FALSE)
    /\ UNCHANGED module_client
    /\ insert_body(c, c, record)

\* delete(filter, row_from=, row_to=), lines 138-139: records = self.query(...)
delete(c, filter, row_from, row_to) == query_first(c, "delete", filter, row_from, row_to)

\* _make_tx_row_key: the clock is read, and a random uuid appended.  The clock
\* does not go back, and a reading may equal the latest one, taken by another
\* caller within the same microsecond; one caller's readings are each later
\* than its last (a call takes longer than the clock's resolution).  No uuid
\* is drawn twice.
make_tx_row_key(c) ==
    /\ frame[c].pc = "wal_key"
    /\ Cardinality(made) < MaxClock
    /\ \E ts \in {clock, clock + 1}, u \in UUIDs :
          /\ ts > Epoch[1]
          /\ \A m \in made : m.client = c => m.key[1] < ts
          /\ \A m \in made : m.key # <<ts, u>>
          /\ clock' = ts
          /\ made' = made \cup {[client |-> c, key |-> <<ts, u>>]}
          /\ frame' = [frame EXCEPT ![c].wkey = <<ts, u>>, ![c].pc = "wal_put"]
    /\ UNCHANGED <<schema, module_client, table, wal, checkpoint, last, alone, applied, resume>>

\* {"PartitionKey": "wal", "RowKey": row_key, "operation": operation, **payload}
wal_entity(wkey, operation, payload) ==
    payload @@ (F_PartitionKey :> S_wal @@ F_RowKey :> wkey @@ F_operation :> operation)

\* write_wal with wal.upsert_entity in place of wal.create_entity: an entity
\* under the same row key is replaced.
write_wal_upsert(c) ==
    LET f      == frame[c]
        entity == wal_entity(f.wkey, f.operation, f.records[f.ri])
    IN  /\ f.pc = "wal_put"
        /\ wal' = {e \in wal : e[F_RowKey] # entity[F_RowKey]} \cup {entity}
        /\ frame' = [frame EXCEPT ![c].ri = f.ri + 1,
                                  ![c].pc = IF f.ri + 1 > Len(f.records)
                                            THEN "ckpt" ELSE "wal_key"]
        /\ UNCHANGED <<schema, module_client, table, checkpoint, clock, made, last, alone, applied, resume>>

\* _write_wal, line 154-155: create the WAL entity (ResourceExistsError, which
\* nothing catches, if its row key is taken); then the next record of delete's
\* loop, or self.recover().
write_wal(c) ==
    LET f == frame[c]
        r == create_entity(wal, wal_entity(f.wkey, f.operation, f.records[f.ri]))
    IN  /\ f.pc = "wal_put"
        /\ UNCHANGED <<schema, module_client, table, checkpoint, clock, made, alone, applied, resume>>
        /\ IF r.error # "none"
           THEN /\ Return(c, f, r.error, <<>>)
                /\ UNCHANGED wal
           ELSE /\ wal' = r.table
                /\ frame' = [frame EXCEPT ![c].ri = f.ri + 1,
                                          ![c].pc = IF f.ri + 1 > Len(f.records)
                                                    THEN "ckpt" ELSE "wal_key"]
                /\ UNCHANGED last

\* --------------------------------------------------------------------------
\* recover
\* --------------------------------------------------------------------------

\* recover(start_time) on client o by caller c, line 160.  start_time = <<>> is
\* None (or "").
recover_body(c, o, start_time) ==
    /\ frame' = [frame EXCEPT ![c] =
                    [IdleFrame EXCEPT !.op = "recover", !.arg = start_time,
                                      !.self = o,
                                      !.explicit = (start_time # <<>>),
                                      !.start_time = start_time,
                                      !.pc = IF start_time = <<>> THEN "ckpt" ELSE "scan"]]
    /\ UNCHANGED <<schema, store, last, applied>>

\* A caller of client c calls recover(start_time).
recover(c, start_time) ==
    /\ Called(c, TRUE)
    /\ UNCHANGED module_client
    /\ recover_body(c, c, start_time)

\* --------------------------------------------------------------------------
\* The module-level functions
\* --------------------------------------------------------------------------

\* The method of client o begins, for the module-level call of caller c whose
\* frame is f: insert and recover run up to their first store call; query and
\* delete, whose first lines end in a store call (the scan of line 116), make
\* it in a later step (module_scan).
method(c, o, f) ==
    CASE f.op = "insert"  -> insert_body(c, o, f.arg)
      [] f.op = "recover" -> recover_body(c, o, f.arg)
      [] f.op \in {"query", "delete"} ->
            /\ frame' = [frame EXCEPT ![c] = [f EXCEPT !.self = o, !.pc = "query_first"]]
            /\ UNCHANGED <<schema, store, applied, last>>

\* _get_client(), lines 205-209, called by caller c for the module-level call
\* whose frame is f0.  With _client None caller c constructs client c from the
\* environment, and the assignment to _client is a later step (set_client).
\* Else the method is called on the client _client refers to at that time,
\* whoever constructed it.
get_client(c, f0, env) ==
    IF module_client = 0
    THEN construct(c, [kind |-> "none", val |-> <<>>], <<>>, env, f0)
    ELSE /\ Called(c, FALSE)
         /\ UNCHANGED module_client
         /\ method(c, module_client, f0)

\* Lines 208 and 215: the store calls of the constructor are over, and _client
\* is set to the new client.  configure returns; _get_client goes on to its
\* return statement.
set_client(c) ==
    LET f == frame[c]
    IN  /\ f.pc = "set_client"
        /\ module_client' = f.self
        /\ UNCHANGED <<schema, store, applied, alone, resume>>
        /\ IF f.op = "module_configure"
           THEN Return(c, f, "ok", <<>>)
           ELSE /\ frame' = [frame EXCEPT ![c].pc = "return_client"]
                /\ UNCHANGED last

\* Line 209 after line 208, `return _client`: _client is read again, and the
\* method is called on the client it refers to by now.
return_client(c) ==
    LET f == frame[c]
    IN  /\ f.pc = "return_client"
        /\ UNCHANGED <<module_client, alone, resume>>
        /\ method(c, module_client, f)

\* Lines 217 and 219, after _get_client() has returned: query, or delete, runs
\* on that client up to and including its first scan.
module_scan(c) ==
    LET f == frame[c]
    IN  /\ f.pc = "query_first"
        /\ UNCHANGED <<module_client, alone, resume>>
        /\ query_body(c, f.self, f.op, f.arg, f.row_from, f.row_to)

\* The module-level insert(record), line 218: _get_client().insert(record).
\* The call starts only while a clock reading is left for it.
module_insert(c, record, env) ==
    /\ ClockLeft > 0
    /\ get_client(c, [IdleFrame EXCEPT !.op = "insert", !.arg = record], env)

\* The module-level query(filter, **kwargs), line 217:
\* _get_client().query(filter, row_from=, row_to=).
module_query(c, filter, row_from, row_to, env) ==
    get_client(c, [IdleFrame EXCEPT !.op = "query", !.arg = filter,
                                    !.row_from = row_from, !.row_to = row_to], env)

\* The module-level delete(filter, **kwargs), line 219:
\* _get_client().delete(filter, row_from=, row_to=).
module_delete(c, filter, row_from, row_to, env) ==
    get_client(c, [IdleFrame EXCEPT !.op = "delete", !.arg = filter,
                                    !.row_from = row_from, !.row_to = row_to], env)

\* The module-level recover(start_time=None), line 220:
\* _get_client().recover(start_time).
module_recover(c, start_time, env) ==
    get_client(c, [IdleFrame EXCEPT !.op = "recover", !.arg = start_time], env)

\* Lines 160-165: the checkpoint is read; "1900-01-01" if there is none.
read_checkpoint(c) ==
    /\ frame[c].pc = "ckpt"
    /\ frame' = [frame EXCEPT ![c].start_time =
                                  IF checkpoint = <<>> THEN Epoch ELSE checkpoint[1],
                              ![c].pc = "scan"]
    /\ UNCHANGED <<schema, module_client, store, last, alone, applied, resume>>

\* The loop of recover moves to orphans[oi]: its index writes, if it has any,
\* else straight to the checkpoint write; past the last one, recover returns.
EnterOrphan(c, f, oi) ==
    IF oi > Len(f.orphans)
    THEN Return(c, f, "ok", <<>>)
    ELSE /\ frame' = [frame EXCEPT ![c] =
                        [f EXCEPT !.oi = oi, !.ki = 1,
                                  !.pc = IF HasIndexWrites(f.orphans[oi])
                                         THEN "apply" ELSE "advance"]]
         /\ UNCHANGED last

\* Lines 167-168: the WAL entries after start_time are listed.
scan_wal(c) ==
    LET f == frame[c]
    IN  /\ f.pc = "scan"
        /\ EnterOrphan(c, [f EXCEPT !.orphans = wal_entries_after(wal, f.start_time)], 1)
        /\ UNCHANGED <<schema, module_client, store, alone, applied, resume>>

\* Lines 171-176 with 183-197: one store call of _apply_insert/_apply_delete.
\* An error that is not swallowed propagates out of recover and of the call.
apply_key(c) ==
    LET f      == frame[c]
        orphan == f.orphans[f.oi]
        more   == f.ki < Len(schema[f.self].index_keys)
    IN  /\ f.pc = "apply"
        /\ UNCHANGED <<schema, module_client, wal, checkpoint, clock, made, alone, resume>>
        /\ \E r \in {apply_key_of(table, schema[f.self], orphan, f.ki)} :
              IF r.error # "none"
              THEN /\ Return(c, f, r.error, <<orphan[F_RowKey]>>)
                   /\ UNCHANGED <<table, applied>>
              ELSE /\ table' = r.table
                   /\ frame' = [frame EXCEPT ![c].ki = f.ki + 1,
                                             ![c].pc = IF more THEN "apply" ELSE "advance"]
                   /\ applied' = IF more THEN applied ELSE applied \cup {orphan[F_RowKey]}
                   /\ UNCHANGED last

\* Lines 179-181: the checkpoint is overwritten with the entry's row key.
advance_checkpoint(c) ==
    LET f == frame[c]
    IN  /\ f.pc = "advance"
        /\ checkpoint' = <<f.orphans[f.oi][F_RowKey]>>
        /\ EnterOrphan(c, f, f.oi + 1)
        /\ UNCHANGED <<schema, module_client, table, wal, clock, made, alone, applied, resume>>

\* An index write fails with an error other than ResourceExistsError /
\* ResourceNotFoundError: it propagates out of recover and of the call.
store_error(c) ==
    LET f == frame[c]
    IN  /\ f.pc = "apply"
        /\ Return(c, f, "StoreError", <<f.orphans[f.oi][F_RowKey]>>)
        /\ UNCHANGED <<schema, module_client, store, alone, applied, resume>>

\* The client process dies in the middle of a call.  When it dies in recover
\* between the last index write of an entry and the checkpoint write, the index
\* an uninterrupted run would have produced is noted.
crash(c) ==
    LET f == frame[c]
    IN  /\ f.pc # "idle"
        /\ Return(c, f, "crash", <<>>)
        /\ resume' = IF f.pc = "advance" /\ alone
                     THEN <<[client |-> c, stage |-> "crashed",
                             entry |-> f.orphans[f.oi][F_RowKey],
                             index |-> replay_from(table, schema[f.self], f.orphans, f.oi + 1).table]>>
                     ELSE <<>>
        /\ UNCHANGED <<schema, module_client, store, alone, applied>>

\* --------------------------------------------------------------------------
\* Inputs
\* --------------------------------------------------------------------------

R1  == (F_userId :> S_u1 @@ F_email :> S_a @@ F_team :> S_eng)
R2  == (F_userId :> S_u2 @@ F_email :> S_b @@ F_team :> S_eng)
\* A record that carries a field named "operation".
R1d == R1 @@ (F_operation :> S_delete)
\* A record without the index key "team".
R0  == (F_userId :> S_u1 @@ F_email :> S_a)
\* A record without the index key "team" and without the primary field.
R00 == (F_email :> S_a)

Records == {R1, R2, R1d, R0, R00}

\* Records that carry a field named "RowKey", holding a row key of the WAL's
\* format with a timestamp of the past.
OldKey == <<0, 1>>
R1k == R1 @@ (F_RowKey :> OldKey)
R2k == R2 @@ (F_RowKey :> OldKey)

\* Records whose primary value is in upper case, and extends "u1".
R1U == (F_userId :> S_U1 @@ F_email :> S_b @@ F_team :> S_eng)
R10 == (F_userId :> S_u10 @@ F_email :> S_a @@ F_team :> S_eng)

\* The (row_from, row_to) arguments: None, and primary values.
RowBounds == {<<<<>>, <<>>>>, <<S_u1, <<>>>>, <<<<>>, S_u1>>, <<S_U1, S_U1>>}

\* The predicates callers filter on; "nick" is not an index key.
Predicates == {<<F_email, S_a>>, <<F_email, S_b>>, <<F_team, S_eng>>, <<F_nick, S_eng>>}

\* A filter is a dict: an ordered list of predicates on distinct fields.
Filters ==
    {f \in UNION {[1..n -> Predicates] : n \in 0..MaxFilterLen} :
        \A i, j \in DOMAIN f : i # j => f[i][1] # f[j][1]}

\* The index_keys arguments of configure and of the constructor: None, lists and
\* comma-separated strings.
KeyArgs ==
    {[kind |-> "none", val |-> <<>>],
     [kind |-> "list", val |-> <<>>],
     [kind |-> "list", val |-> INDEX_KEYS],
     [kind |-> "str",  val |-> <<"t", "e", "a", "m", ",", " ", "e", "m", "a", "i", "l">>],
     [kind |-> "str",  val |-> <<" ", ",", " ">>]}

\* The (index_keys, row_key) arguments of configure and of the constructors:
\* every index_keys with the field name, and the list with no row_key.
SchemaArgs ==
    {<<k, ROW_KEY>> : k \in KeyArgs} \cup {<<[kind |-> "list", val |-> INDEX_KEYS], <<>>>>}

\* The (index_keys, row_key) arguments of configure on a client that exists:
\* its schema, the index keys in another order, and nothing.
ConfigureArgs ==
    {<<[kind |-> "list", val |-> INDEX_KEYS], ROW_KEY>>,
     <<[kind |-> "str",  val |-> <<"t", "e", "a", "m", ",", " ", "e", "m", "a", "i", "l">>],
       ROW_KEY>>,
     <<[kind |-> "list", val |-> <<>>], <<>>>>}

\* The (index_keys, row_key) arguments of the module-level configure: a
\* schema, and nothing (the environment's schema).
ModuleArgs ==
    {<<[kind |-> "list", val |-> INDEX_KEYS], ROW_KEY>>,
     <<[kind |-> "none", val |-> <<>>], <<>>>>}

\* The environments: TABLE_CATALOG_INDEX_KEYS and TABLE_CATALOG_ROW_KEY both
\* unset, or both set.
Envs ==
    {[index_keys |-> <<>>, row_key |-> <<>>],
     [index_keys |-> <<"e", "m", "a", "i", "l", ",", "t", "e", "a", "m">>, row_key |-> ROW_KEY]}

\* The start_time a caller may pass to recover: the epoch, or a WAL row key.
StartTimes == {Epoch} \cup {e[F_RowKey] : e \in wal}

\* --------------------------------------------------------------------------
\* Specifications
\* --------------------------------------------------------------------------

\* The steps of an insert or a recover in progress.
Step(c) ==
    \/ make_tx_row_key(c)
    \/ write_wal(c)
    \/ read_checkpoint(c)
    \/ scan_wal(c)
    \/ apply_key(c)
    \/ advance_checkpoint(c)

\* One client writes the WAL, so that entries are appended in row key order;
\* every client calls recover (from the checkpoint) concurrently with the
\* others, and may die at any step.
\* (A delete entry enters the WAL through a record with an "operation" field.)
Next ==
    \/ \E r \in {R1, R1d} : insert(1, r)
    \/ \E c \in Clients :
          \/ recover(c, <<>>)
          \/ Step(c)
          \/ crash(c)

Spec == Init /\ [][Next]_vars

\* One client, and nothing fails.
NextSingle ==
    \/ \E r \in Records : insert(1, r)
    \/ \E f \in Filters : delete(1, f, <<>>, <<>>)
    \/ \E f \in Filters : query(1, f, <<>>, <<>>)
    \/ recover(1, <<>>)
    \/ query_next(1)
    \/ Step(1)

SpecSingle == Init /\ [][NextSingle]_vars

\* One client that inserts and replays; index writes may fail and it may die.
NextReplay ==
    \/ \E r \in {R1, R1d} : insert(1, r)
    \/ recover(1, <<>>)
    \/ \E st \in StartTimes : recover(1, st)
    \/ Step(1)
    \/ store_error(1)
    \/ crash(1)

SpecReplay == Init /\ [][NextReplay]_vars

\* One client that inserts records, some of them twice, and replays; nothing
\* fails in the store.  One record carries an "operation" field, one a
\* "RowKey" field.
NextTwice ==
    \/ \E r \in {R1, R1d, R1k} : insert(1, r)
    \/ recover(1, <<>>)
    \/ Step(1)

SpecTwice == Init /\ [][NextTwice]_vars

\* One client inserts, and queries with row bounds; nothing fails.
NextQuery ==
    \/ \E r \in {R1U, R10} : insert(1, r)
    \/ \E f \in Filters, b \in RowBounds : query(1, f, b[1], b[2])
    \/ query_next(1)
    \/ Step(1)

SpecQuery == Init /\ [][NextQuery]_vars

\* Several clients insert and replay; nothing fails, every call in progress
\* goes on, and every client keeps calling recover.
NextFair ==
    \E c \in Clients :
        \/ insert(c, R1)
        \/ recover(c, <<>>)
        \/ Step(c)

FairSpec ==
    /\ Init
    /\ [][NextFair]_vars
    /\ \A c \in Clients :
          /\ WF_vars(make_tx_row_key(c))
          /\ WF_vars(write_wal(c))
          /\ WF_vars(read_checkpoint(c))
          /\ WF_vars(scan_wal(c))
          /\ WF_vars(apply_key(c))
          /\ WF_vars(advance_checkpoint(c))
          /\ WF_vars(recover(c, <<>>))

\* One client that inserts, deletes and replays, and may die at any step.
NextDelete ==
    \/ insert(1, R1)
    \/ \E f \in Filters : delete(1, f, <<>>, <<>>)
    \/ query_next(1)
    \/ Step(1)
    \/ crash(1)

SpecDelete == Init /\ [][NextDelete]_vars

\* Two clients: one inserts and deletes, the other inserts and calls recover;
\* some records name their own row key.
NextWal ==
    \/ \E r \in {R1, R1k} : insert(1, r)
    \/ delete(1, <<<<F_team, S_eng>>>>, <<>>, <<>>)
    \/ insert(2, R2k)
    \/ recover(2, <<>>)
    \/ \E c \in Clients : Step(c)

SpecWal == Init /\ [][NextWal]_vars

\* No client exists yet.
InitSchema ==
    /\ schema = [c \in Clients |-> NoSchema]
    /\ module_client = 0
    /\ table = {}
    /\ wal = {}
    /\ checkpoint = <<>>
    /\ clock = 0
    /\ made = {}
    /\ frame = [c \in Clients |-> IdleFrame]
    /\ last = NoCall
    /\ alone = TRUE
    /\ applied = {}
    /\ resume = <<>>

\* Two threads call the module-level functions, each constructing its client
\* when it finds _client unset: both call configure, thread 1 queries and
\* replays, thread 2 inserts and deletes.  Client 2 is also constructed
\* directly, with every kind of argument, and the clients that exist are
\* configured again.
NextSchema ==
    \/ \E a \in SchemaArgs, env \in Envs : init(2, a[1], a[2], env)
    \/ \E env \in Envs :
          \/ module_query(1, <<<<F_team, S_eng>>>>, <<>>, S_u1, env)
          \/ module_recover(1, Epoch, env)
          \/ module_insert(2, R1, env)
          \/ module_delete(2, <<<<F_team, S_eng>>>>, <<>>, <<>>, env)
    \/ \E c \in Clients :
          \/ \E a \in ModuleArgs, env \in Envs : module_configure(c, a[1], a[2], env)
          \/ set_client(c)
          \/ return_client(c)
          \/ module_scan(c)
          \/ \E a \in ConfigureArgs : configure(c, a[1], a[2])
          \/ Step(c)

SpecSchema == InitSchema /\ [][NextSchema]_vars

\* --------------------------------------------------------------------------
\* Properties
\* --------------------------------------------------------------------------

\* This step ends a call (other than a repetition of the last one, with the
\* same outcome).
LastChanged == last'.op # last.op \/ last'.status # last.status \/ last' # last

\* The call that returned last, seen from the state right after its return.
Returned(op, status) ==
    /\ \A c \in Clients : frame[c].pc = "idle"
    /\ last.op = op
    /\ last.status = status

\* The payloads query({field: value}) returns in the current state.
Lookup(c, field, value) ==
    Range(query_result(table, schema[c], <<<<field, value>>>>, <<>>, <<>>).results)

\* C1 (round-trip): after the first insert(R) into an empty store has returned
\* normally, query({k: R[k]}) returns, for every index key k, a payload with
\* exactly the fields and values of R.
C1_RoundTrip ==
    (Returned("insert", "ok") /\ Cardinality(wal) = 1)
        => \A k \in Range(schema[last.client].index_keys) :
              last.arg \in Lookup(last.client, k, last.arg[k])

\* C2 (delete removes on every key): after delete(filter) has returned
\* normally, no payload the filter matched is returned by query({k: R[k]}),
\* for any index key k.
C2_DeleteRemoves ==
    Returned("delete", "ok")
        => \A i \in DOMAIN last.records :
              \A k \in Range(schema[last.client].index_keys) :
                  last.records[i] \notin Lookup(last.client, k, last.records[i][k])

\* C9 (unknown filter field): a query whose filter names a field that is not an
\* index key fails with the validation error, wherever the field stands in the
\* filter and whatever the other predicates match.
C9_UnknownFieldRejected ==
    (/\ \A c \in Clients : frame[c].pc = "idle"
     /\ last.op = "query"
     /\ \E i \in DOMAIN last.arg :
            last.arg[i][1] \notin Range(schema[last.client].index_keys))
        => last.status = "ValueError"

\* C10 (empty filter): query and delete with a filter of zero entries fail with
\* the validation error (the error of the other filter validation failures).
C10_EmptyFilterRejected ==
    (/\ \A c \in Clients : frame[c].pc = "idle"
     /\ last.op \in {"query", "delete"}
     /\ last.arg = <<>>)
        => last.status = "ValueError"

\* The row keys _make_tx_row_key can generate.
RowKeys == (1..MaxClock) \X UUIDs

InWal(k) == \E e \in wal : e[F_RowKey] = k

\* C3 (eventual visibility): every WAL entry whose append succeeded is
\* eventually applied to the index by some recover, when calls in progress go
\* on, recover keeps being called and nothing fails.
C3_EventualVisibility ==
    \A k \in RowKeys : InWal(k) ~> (k \in applied)

\* C4 (checkpoint monotonicity): no write of the checkpoint stores a row key
\* smaller than the one it overwrites, and the checkpoint is never removed.
C4_CheckpointMonotonic ==
    [][checkpoint # <<>>
          => checkpoint' # <<>> /\ ~KeyLess(checkpoint'[1], checkpoint[1])]_vars

\* The index that results from applying every WAL entry once, in ascending
\* row key order, to an empty index.
ReplayAll(sch) == replay_from({}, sch, ByWalKey(wal), 1).table

\* C5 (concurrent and crashing recoveries): once every call in progress has
\* ended and one further recover has run alone to its normal return, the index
\* is the one obtained by applying every WAL entry once, in order, to an empty
\* index.
C5_RecoveriesConverge ==
    (Returned("recover", "ok") /\ alone /\ ~last.explicit)
        => table = ReplayAll(schema[last.client])

\* The caller's next recover after a crash between the last index write of an
\* entry and its checkpoint write is under way, or has ended.
Resuming == resume # <<>> /\ resume[1].stage = "resuming"

\* The WAL entries from row key k on, in replay order.
EntriesFrom(k) == ByWalKey({e \in wal : ~KeyLess(e[F_RowKey], k)})

\* C6 (crash resumption): when a recover of a single caller, with or without
\* start_time, died after applying entry E and before writing E's row key to
\* the checkpoint, the caller's next recover replays E and every later entry,
\* no re-application surfaces an error, and its normal return leaves the index
\* the uninterrupted recover would have produced.
C6_CrashResumption ==
    Resuming =>
        LET f == frame[resume[1].client]
        IN  /\ f.pc \in {"apply", "advance"} => f.orphans = EntriesFrom(resume[1].entry)
            /\ f.pc = "idle" =>
                  /\ last.status \notin {"ResourceExistsError", "ResourceNotFoundError"}
                  /\ last.status = "ok" => table = resume[1].index

\* Client c is in a second insert(R), right after insert(R) returned normally.
SecondInsert(c) ==
    /\ frame[c].op = "insert"
    /\ frame[c].pc # "idle"
    /\ last.client = c
    /\ last.op = "insert"
    /\ last.status = "ok"
    /\ last.arg = frame[c].arg

\* C7 (idempotent insert): a second insert(R) right after insert(R) does not
\* fail on the copies that exist and leaves the index table as the first
\* insert left it; and re-applying an entry that has just been applied, insert
\* or delete, does not fail and changes nothing.
C7_IdempotentInsert ==
    /\ [][\A c \in Clients :
            SecondInsert(c) =>
                /\ table' = table
                /\ last'.status \notin {"ResourceExistsError", "ResourceNotFoundError"}]_vars
    /\ [](\A c \in Clients :
            frame[c].pc = "advance" =>
                apply_entry(table, schema[c], frame[c].orphans[frame[c].oi])
                    = [error |-> "none", table |-> table])

\* The row key of the WAL entry just before the one with row key k, if any.
JustBefore(k) ==
    LET before == {e[F_RowKey] : e \in {x \in wal : KeyLess(x[F_RowKey], k)}}
    IN  IF before = {} THEN <<>>
        ELSE <<CHOOSE j \in before : \A i \in before : ~KeyLess(j, i)>>

\* A call has just ended in StoreError.
ReplayFailed == last.status = "StoreError"

\* C8 (replay failure preserves progress): when an index write of entry E fails
\* with another error than already-exists / not-found in a recover, with or
\* without start_time, the call ends there with that failure, nothing more is
\* applied, and the checkpoint is the row key of the entry just before E
\* (unset if E is the first); the caller's next recover starts its replay at
\* E.
C8_ReplayFailurePreservesProgress ==
    /\ [][\A c \in Clients :
            (frame[c].pc = "apply" /\ LastChanged /\ last'.status = "StoreError")
              => /\ last'.failed = <<frame[c].orphans[frame[c].oi][F_RowKey]>>
                 /\ frame'[c].pc = "idle"
                 /\ table' = table
                 /\ applied' = applied
                 /\ checkpoint' = JustBefore(last'.failed[1])]_vars
    /\ [](\A c \in Clients :
            (ReplayFailed /\ last.client = c /\ frame[c].pc \in {"apply", "advance"})
              => frame[c].orphans[1][F_RowKey] = last.failed[1])

\* C11 (insert validation has no side effect): insert of a record that lacks an
\* index key or the primary field ends in the validation error, the error
\* names every missing field, and the step changes neither the WAL, nor the
\* index table, nor the checkpoint; no call of insert goes on to the WAL with
\* a field missing.
C11_InsertValidation ==
    [][\A c \in Clients :
          /\ (LastChanged /\ last'.client = c /\ last'.op = "insert"
                 /\ last'.status = "ValueError")
               => /\ Range(last'.failed)
                        = (Range(schema[c].index_keys) \cup {schema[c].row_key})
                              \ DOMAIN last'.arg
                  /\ last'.failed # <<>>
                  /\ frame[c].pc = "idle"
                  /\ <<wal, table, checkpoint, clock, made>>' = <<wal, table, checkpoint, clock, made>>
          /\ (frame[c].pc = "idle" /\ frame'[c].op = "insert" /\ frame'[c].pc # "idle")
               => (Range(schema[c].index_keys) \cup {schema[c].row_key})
                      \subseteq DOMAIN frame'[c].arg]_vars

\* An insert lacking two fields has been refused on a store that holds records.
C11_Witness ==
    /\ Returned("insert", "ValueError")
    /\ Len(last.failed) = 2
    /\ wal # {}
    /\ table # {}

\* A call of TableCatalogClient.configure returns in this step.
ConfigureReturns == LastChanged /\ last'.op = "configure"

\* The arguments of configure that give no index key, or no primary field.
InvalidSchemaArgs(arg) ==
    \/ arg[1].val = <<>>
    \/ arg[1].kind = "str" /\ Range(arg[1].val) \subseteq {" ", ","}
    \/ arg[2] = <<>>

\* C12 (schema locking is one-way): a locked schema never changes again, and
\* stays locked, whatever is called; configure on a locked client fails;
\* configure without an index key or without a primary field fails and leaves
\* the schema unset and unlocked.
C12_SchemaLockOneWay ==
    [][\A c \in Clients :
          /\ schema[c].schema_locked => schema'[c] = schema[c]
          /\ (ConfigureReturns /\ last'.client = c /\ schema[c].schema_locked)
                => last'.status = "RuntimeError"
          /\ (ConfigureReturns /\ last'.client = c /\ ~schema[c].schema_locked
                 /\ InvalidSchemaArgs(last'.arg))
                => last'.status = "ValueError" /\ schema'[c] = NoSchema]_vars

\* configure with other index keys has been refused by a locked client, while
\* the other client, whose configure failed, has no schema.
C12_Witness ==
    /\ Returned("configure", "RuntimeError")
    /\ schema[last.client].schema_locked
    /\ last.arg[1].kind = "list"
    /\ last.arg[1].val # <<>>
    /\ last.arg[1].val # schema[last.client].index_keys
    /\ last.arg[2] # <<>>
    /\ \E c \in Clients : schema[c] = NoSchema

\* A filter query and delete accept: one predicate or more, on index keys.
ValidFilter(sch, filter) ==
    /\ filter # <<>>
    /\ \A i \in DOMAIN filter : filter[i][1] \in Range(sch.index_keys)

\* Some WAL entry lies after the checkpoint.
Unreplayed ==
    \E e \in wal : checkpoint = <<>> \/ KeyLess(checkpoint[1], e[F_RowKey])

\* C13 (delete of nothing): the query of delete, with a valid filter, yields
\* what the filter matches in the index; when that is nothing the call appends
\* nothing to the WAL and does not end in an error, and, when no WAL entry lies
\* after the checkpoint, it leaves the index table and the checkpoint as they are.
C13_DeleteOfNothing ==
    [][\A c \in Clients :
          LET f == frame[c]
              g == frame'[c]
              matched == query_result(table, schema[c], g.arg, g.row_from, g.row_to).results
          IN  /\ (g.op = "delete" /\ ValidFilter(schema[c], g.arg)
                     /\ f.pc \in {"idle", "query_next"} /\ g.pc \in {"ckpt", "wal_key"})
                   => /\ g.records = matched
                      /\ (matched = <<>>) = (g.pc = "ckpt")
              /\ (f.op = "delete" /\ ValidFilter(schema[c], f.arg) /\ f.records = <<>>
                     /\ f.pc # "idle")
                   => /\ wal' = wal
                      /\ ~Unreplayed => table' = table /\ checkpoint' = checkpoint
              /\ (LastChanged /\ last'.client = c /\ last'.op = "delete"
                     /\ ValidFilter(schema[c], last'.arg) /\ last'.records = <<>>)
                   => /\ last'.status \in {"ok", "crash"}
                      /\ wal' = wal]_vars

\* delete with a valid filter that matched nothing has returned normally, on
\* an index that holds records.
C13_Witness ==
    /\ Returned("delete", "ok")
    /\ ValidFilter(schema[last.client], last.arg)
    /\ last.records = <<>>
    /\ table # {}
    /\ wal # {}

\* C14 (the WAL is append-only): every step keeps every WAL entity as it is
\* (row key, operation tag and payload), adds at most one entity, under a row
\* key no entity had, and a step that writes the checkpoint leaves the WAL
\* alone; no two entities share a row key.
C14_WalAppendOnly ==
    [][/\ wal \subseteq wal'
       /\ Cardinality(wal' \ wal) <= 1
       /\ \A e \in wal' \ wal : \A x \in wal : x[F_RowKey] # e[F_RowKey]
       /\ \A e, x \in wal' : e[F_RowKey] = x[F_RowKey] => e = x
       /\ checkpoint' # checkpoint => wal' = wal]_vars

\* An insert under a row key that is taken has been refused, and the entity
\* that holds the row key is another record's.
C14_Witness ==
    /\ last.op = "insert"
    /\ last.status = "ResourceExistsError"
    /\ \E e \in wal : /\ e[F_RowKey] = last.arg[F_RowKey]
                       /\ e[F_userId] # last.arg[F_userId]
    /\ checkpoint # <<>>

\* C15 (delete logs delete entries): each write of delete's loop over the
\* payloads its query returned appends one WAL entry, and that entry carries
\* the operation tag "delete".
C15_DeleteLogsDelete ==
    [][\A c \in Clients :
          (frame[c].op = "delete" /\ frame[c].pc = "wal_put" /\ frame'[c] # frame[c])
            => /\ Cardinality(wal' \ wal) = 1
               /\ \A e \in wal' \ wal : e[F_operation] = S_delete]_vars

\* Client c is in the loop of recover over its orphans.
Replaying(c) == frame[c].pc \in {"apply", "advance"}

\* C16 (replay order): the entries one recover replays have strictly
\* increasing row keys, all after the checkpoint it read (or the start_time it
\* was given); it goes through them one by one, in that order, making the
\* index writes of an entry one after the other, then writing the checkpoint
\* with the entry's row key, then turning to the next entry; nothing else
\* writes the index or the checkpoint.
C16_ReplayOrder ==
    /\ [](\A c \in Clients :
             LET f == frame[c]
                 n == Len(schema[c].index_keys)
             IN  Replaying(c) =>
                   /\ \A i \in 1..Len(f.orphans) :
                         KeyLess(f.start_time, f.orphans[i][F_RowKey])
                   /\ \A i, j \in 1..Len(f.orphans) :
                         i < j => KeyLess(f.orphans[i][F_RowKey], f.orphans[j][F_RowKey])
                   /\ f.oi \in 1..Len(f.orphans)
                   /\ f.pc = "apply" => f.ki \in 1..n
                   /\ (f.pc = "advance" /\ HasIndexWrites(f.orphans[f.oi])) => f.ki = n + 1)
    /\ [][/\ \A c \in Clients :
               LET f == frame[c]
                   g == frame'[c]
               IN  (Replaying(c) /\ Replaying(c)' /\ g # f) =>
                     /\ g.orphans = f.orphans
                     /\ g.start_time = f.start_time
                     /\ \/ f.pc = "apply" /\ g.oi = f.oi /\ g.ki = f.ki + 1
                        \/ /\ f.pc = "advance" /\ g.oi = f.oi + 1 /\ g.ki = 1
                           /\ checkpoint' = <<f.orphans[f.oi][F_RowKey]>>
          /\ table' # table =>
                \E c \in Clients :
                    /\ frame[c].pc = "apply"
                    /\ table' = apply_key_of(table, schema[c], frame[c].orphans[frame[c].oi],
                                             frame[c].ki).table
          /\ checkpoint' # checkpoint =>
                \E c \in Clients :
                    /\ frame[c].pc = "advance"
                    /\ checkpoint' = <<frame[c].orphans[frame[c].oi][F_RowKey]>>]_vars

\* A recover given a start_time has applied its second entry, with the
\* checkpoint at its first.
C16_Witness ==
    /\ frame[1].op = "recover"
    /\ frame[1].explicit
    /\ frame[1].pc = "advance"
    /\ frame[1].oi = 2
    /\ checkpoint = <<frame[1].orphans[1][F_RowKey]>>

\* Every content key of the index has all the copies of its record, alike,
\* and nothing else.
AllOrNone(sch) ==
    \A e \in table :
        LET same == {d \in table : d[F_RowKey] = e[F_RowKey]}
        IN  /\ Cardinality(same) = Len(sch.index_keys)
            /\ \A d \in same : entity_to_payload(d) = entity_to_payload(e)
            /\ {d[F_PartitionKey] : d \in same}
                 = {partition_key(k, entity_to_payload(e)[k]) : k \in Range(sch.index_keys)}

\* Client c is idle and the recover that ended most recently returned normally.
AtRest(c) ==
    /\ frame[c].pc = "idle"
    /\ last.client = c
    /\ last.op \in {"recover", "insert", "delete"}
    /\ last.status = "ok"

\* C17 (fan-out all-or-none at rest): with one caller, when no recover is in
\* progress and the last one returned without error, every content key of the
\* index has one entry per index-key field, all with the same payload.
C17_FanOutAllOrNone == AtRest(1) => AllOrNone(schema[1])

\* The single-predicate query on the i-th predicate of the last call's filter,
\* with the row bounds given, against the index as it is.
QueryOn(i, row_from, row_to) ==
    query_one(table, schema[last.client], last.arg[i], row_from, row_to).results

\* C18 (multi-predicate query is an intersection): a query on two or more
\* predicates over index-key fields returns the payloads of the query on its
\* first predicate that also occur in the query on each other predicate, in
\* the order of the first, with the same row bounds throughout.
C18_QueryIntersects ==
    (/\ Returned("query", "ok")
     /\ Len(last.arg) >= 2
     /\ ValidFilter(schema[last.client], last.arg))
      => last.value =
           SelectSeq(QueryOn(1, last.row_from, last.row_to),
                     LAMBDA r : \A i \in 2..Len(last.arg) :
                                   r \in Range(QueryOn(i, last.row_from, last.row_to)))

\* A two-predicate query with a row bound returned some, not all, of what its
\* first predicate matches.
C18_Witness ==
    /\ Returned("query", "ok")
    /\ Len(last.arg) = 2
    /\ last.row_to # <<>>
    /\ last.value # <<>>
    /\ last.value # QueryOn(1, last.row_from, last.row_to)

\* C19 (row bounds are inclusive on the primary value): a query on one
\* index-key predicate with row bounds a, b returns the payloads of the
\* unbounded query whose primary value p has a <= p <= b in the order of
\* strings.
C19_RowBoundsInclusive ==
    (/\ Returned("query", "ok")
     /\ Len(last.arg) = 1)
      => last.value =
           SelectSeq(QueryOn(1, <<>>, <<>>),
                     LAMBDA r :
                        LET p == r[schema[last.client].row_key]
                        IN  /\ last.row_from = <<>> \/ StrLeq(last.row_from, p)
                            /\ last.row_to = <<>> \/ StrLeq(p, last.row_to))

\* No client is inside recover (called directly, or from insert or delete).
NoRecoverInProgress ==
    \A c \in Clients : frame[c].pc \notin {"ckpt", "scan", "apply", "advance"}

\* C20 (the checkpoint covers everything at or before it): while no recover is
\* in progress, the checkpoint is unset or is the row key of a WAL entry, and
\* every WAL entry with a row key at or before the checkpoint has been fully
\* applied to the index by some recover.
C20_CheckpointCovers ==
    (NoRecoverInProgress /\ checkpoint # <<>>) =>
        /\ InWal(checkpoint[1])
        /\ \A e \in wal :
              ~KeyLess(checkpoint[1], e[F_RowKey]) => e[F_RowKey] \in applied

====
